---- MODULE Spec2Model ----
(***************************************************************************)
(* Model of src/app.py: the composite property predictor                   *)
(* (predict_properties and its three tables) and the Flask handlers        *)
(* around it.                                                              *)
(*                                                                         *)
(* Number representation.  A Python float is a record [k, n]:              *)
(*   k = "fin" : a finite value, n an integer count of units;              *)
(*   k = "nan" : NaN (n = 0);   k = "inf" : +/- infinity (n = +1 / -1).    *)
(* A fiber volume fraction counts thousandths (0.6 is n = 600); a          *)
(* property value counts tenths (1500.0 is n = 15000, 2.5 is n = 25),      *)
(* which is the precision round(x, 1) leaves.  Table factors count         *)
(* hundredths (0.85 is 85).  Products are exact rationals [num, den].      *)
(*                                                                         *)
(* The binary64 product the code rounds differs from the exact rational    *)
(* by rounding error only, so round(x, 1) agrees with exact rounding       *)
(* except where the exact value is a decimal tie (..x5).  There the double *)
(* is either the tie itself (round-half-to-even applies) or lies just      *)
(* beside it (the result goes away from or toward zero).  The variable     *)
(* tie_rule carries which, chosen nondeterministically at start.           *)
(***************************************************************************)
EXTENDS Integers, Sequences, FiniteSets, TLC

VARIABLES
    MATERIALS_DB,            \* app.py:25  fiber -> matrix -> record of 7 (tenths)
    LAYUP_FACTORS,           \* app.py:64  layup -> factor (hundredths)
    MANUFACTURING_FACTORS,   \* app.py:75  process -> factor (hundredths)
    tie_rule,                \* what round(x, 1) does on an exact decimal tie
    request,                 \* the request being answered: [route, ...]
    response,                \* the handler's reply: [status, body]
    calls                    \* arguments of each predict_properties call made
                             \* while answering `request`, in call order

vars == <<MATERIALS_DB, LAYUP_FACTORS, MANUFACTURING_FACTORS, tie_rule,
          request, response, calls>>

tables == <<MATERIALS_DB, LAYUP_FACTORS, MANUFACTURING_FACTORS>>

-----------------------------------------------------------------------------
(* Tables, app.py:25-83 *)

Rec(ts, tm, cs, fs, fm, ilss, ie) ==
    [ts |-> ts, tm |-> tm, cs |-> cs, fs |-> fs, fm |-> fm, ilss |-> ilss, ie |-> ie]

BaseKeys == {"ts", "tm", "cs", "fs", "fm", "ilss", "ie"}

InitMaterialsDb ==
    [Carbon |->
        [Epoxy       |-> Rec(15000, 1300, 12000, 14000, 1250, 750, 180),
         Polyester   |-> Rec(12000, 1100,  9500, 11500, 1050, 620, 150),
         Vinyl_ester |-> Rec(13500, 1200, 10500, 12500, 1150, 680, 160),
         PEEK        |-> Rec(18000, 1450, 14000, 16500, 1380, 880, 250),
         PA6         |-> Rec(14000, 1250, 11000, 13000, 1200, 700, 200)],
     Glass |->
        [Epoxy       |-> Rec(4200, 260, 2800, 5500, 240, 400, 270),
         Polyester   |-> Rec(3500, 220, 2300, 4500, 200, 320, 220),
         Vinyl_ester |-> Rec(3850, 240, 2550, 5000, 220, 360, 240),
         PEEK        |-> Rec(4800, 300, 3200, 6200, 280, 460, 320),
         PA6         |-> Rec(4000, 250, 2700, 5200, 230, 380, 260)],
     Aramid |->
        [Epoxy       |-> Rec(5600, 320, 1800, 4800, 280, 350, 420),
         Polyester   |-> Rec(4800, 280, 1500, 4100, 240, 280, 350),
         Vinyl_ester |-> Rec(5200, 300, 1650, 4450, 260, 310, 380),
         PEEK        |-> Rec(6200, 360, 2000, 5300, 320, 400, 480),
         PA6         |-> Rec(5400, 310, 1750, 4600, 270, 330, 400)],
     Basalt |->
        [Epoxy       |-> Rec(3800, 240, 2500, 4900, 220, 380, 240),
         Polyester   |-> Rec(3200, 200, 2100, 4100, 180, 300, 200),
         Vinyl_ester |-> Rec(3500, 220, 2300, 4500, 200, 340, 220),
         PEEK        |-> Rec(4300, 270, 2800, 5500, 250, 430, 280),
         PA6         |-> Rec(3650, 230, 2400, 4700, 210, 360, 230)],
     Natural |->
        [Epoxy       |-> Rec(550, 25, 450, 850, 35, 120, 100),
         Polyester   |-> Rec(450, 20, 380, 700, 28,  90,  80),
         Vinyl_ester |-> Rec(500, 22, 410, 770, 31, 100,  90),
         PEEK        |-> Rec(650, 30, 520, 950, 40, 140, 120),
         PA6         |-> Rec(520, 24, 430, 800, 33, 110,  90)]]

InitLayupFactors ==
    [x \in {"UD 0°", "UD 90°", "Woven", "[0/90]2s", "[0/45/90/-45]s",
            "[±45]2s", "Quasi-isotropic"} |->
        CASE x = "UD 0°"           -> 100
          [] x = "UD 90°"          -> 40
          [] x = "Woven"           -> 80
          [] x = "[0/90]2s"        -> 85
          [] x = "[0/45/90/-45]s"  -> 75
          [] x = "[±45]2s"         -> 65
          [] x = "Quasi-isotropic" -> 70]

InitManufacturingFactors ==
    [Autoclave |-> 100, VARTM |-> 95, Hand_layup |-> 85, Pultrusion |-> 98,
     RTM |-> 97, Compression_molding |-> 93, Filament_winding |-> 96]

-----------------------------------------------------------------------------
(* Python values *)

Fin(n) == [k |-> "fin", n |-> n]
NaN    == [k |-> "nan", n |-> 0]
Inf(s) == [k |-> "inf", n |-> s]

\* JSON values as Python objects: [t |-> type tag, v |-> payload].
JStr(s)  == [t |-> "str", v |-> s]
JNum(n)  == [t |-> "num", v |-> n]      \* a JSON number, in thousandths
JBool(b) == [t |-> "bool", v |-> b]
JNull     == [t |-> "null"]
JList(xs) == [t |-> "list", v |-> xs]  \* a JSON array, xs its items in order
JObj(o)  == [t |-> "obj", v |-> o]      \* o: a function from present keys to values

\* dict.get(key, default) on a Python dict o
Get(o, key, default) == IF key \in DOMAIN o THEN o[key] ELSE default

\* hash(x) succeeds: lists and dicts are unhashable
Hashable(j) == j.t \notin {"list", "obj"}

\* `x in d` / d.get(x, ...) for a dict d with string keys and a hashable x
IsKey(j, d) == j.t = "str" /\ j.v \in DOMAIN d

-----------------------------------------------------------------------------
(* Exact rationals *)

RECURSIVE Gcd(_, _)
Gcd(a, b) == IF b = 0 THEN a ELSE Gcd(b, a % b)

Abs(a) == IF a < 0 THEN -a ELSE a

Frac(num, den) ==
    LET g == Gcd(Abs(num), den)
    IN  IF num = 0 THEN [num |-> 0, den |-> 1]
        ELSE [num |-> num \div g, den |-> den \div g]

\* product of two reduced fractions, cancelling across before multiplying
FMul(x, y) ==
    IF x.num = 0 \/ y.num = 0 THEN [num |-> 0, den |-> 1]
    ELSE LET g1 == Gcd(Abs(x.num), y.den)
             g2 == Gcd(Abs(y.num), x.den)
         IN  [num |-> (x.num \div g1) * (y.num \div g2),
              den |-> (x.den \div g2) * (y.den \div g1)]

-----------------------------------------------------------------------------
(* predict_properties, app.py:86-126 *)

VF_REF == 600                 \* app.py:106  fiber_vf / 0.6
DEFAULT_LAYUP_FACTOR == 85    \* app.py:109  LAYUP_FACTORS.get(layup, 0.85)
DEFAULT_MANUF_FACTOR == 95    \* app.py:112  MANUFACTURING_FACTORS.get(manufacturing, 0.95)

Raise(e)  == [raised |-> e]
Return(x) == [value |-> x]
Raised(r) == "raised" \in DOMAIN r

\* round(x, 1) of a finite x given exactly in tenths: the nearest integer count
\* of tenths; an exact tie is settled by tie_rule.
round1(x) ==
    LET a == Abs(x.num)
        q == a \div x.den
        r == a % x.den
        up == \/ 2 * r > x.den
              \/ /\ 2 * r = x.den
                 /\ \/ tie_rule = "away"
                    \/ tie_rule = "even" /\ q % 2 = 1
        m == IF up THEN q + 1 ELSE q
    IN  IF x.num < 0 THEN -m ELSE m

\* round(b * total_factor, 1) for a table value b (tenths)
scaled(b, total) ==
    IF total.k = "fin"
    THEN Fin(round1(FMul(Frac(b, 1), total.f)))
    ELSE total               \* nan and infinities round to themselves

\* Variant: the fiber default is 'Glass'.
resolve_fiber_glass(fiber_type) ==
    IF IsKey(fiber_type, MATERIALS_DB) THEN fiber_type.v ELSE "Glass"

\* app.py:101  fiber_type if fiber_type in MATERIALS_DB else 'Carbon'
resolve_fiber(fiber_type) ==
    IF IsKey(fiber_type, MATERIALS_DB) THEN fiber_type.v ELSE "Carbon"

\* app.py:102  matrix_type if matrix_type in MATERIALS_DB.get(fiber, {}) else 'Epoxy'
resolve_matrix(fiber, matrix_type) ==
    IF IsKey(matrix_type, Get(MATERIALS_DB, fiber, <<>>)) THEN matrix_type.v ELSE "Epoxy"

\* Variant: normalised to Vf = 0.5 instead of 0.6.
vf_factor_half(fiber_vf) ==
    IF fiber_vf.k = "fin"
    THEN [k |-> "fin", f |-> Frac(fiber_vf.n, 500)]
    ELSE fiber_vf

\* Variant: the matrix fraction (1 - Vf) is scaled instead of the fiber fraction.
vf_factor_matrix(fiber_vf) ==
    IF fiber_vf.k = "fin"
    THEN [k |-> "fin", f |-> Frac(1000 - fiber_vf.n, VF_REF)]
    ELSE fiber_vf

\* app.py:106  fiber_vf / 0.6, exact; nan and infinities pass through
vf_factor(fiber_vf) ==
    IF fiber_vf.k = "fin"
    THEN [k |-> "fin", f |-> Frac(fiber_vf.n, VF_REF)]
    ELSE fiber_vf

\* Variant: an unknown layup gets 0.8.
layup_factor_low(layup) ==
    IF IsKey(layup, LAYUP_FACTORS) THEN LAYUP_FACTORS[layup.v] ELSE 80

\* app.py:109  LAYUP_FACTORS.get(layup, 0.85)
layup_factor(layup) ==
    IF IsKey(layup, LAYUP_FACTORS) THEN LAYUP_FACTORS[layup.v] ELSE DEFAULT_LAYUP_FACTOR

\* app.py:112  MANUFACTURING_FACTORS.get(manufacturing, 0.95)
manuf_factor(manufacturing) ==
    IF IsKey(manufacturing, MANUFACTURING_FACTORS)
    THEN MANUFACTURING_FACTORS[manufacturing.v]
    ELSE DEFAULT_MANUF_FACTOR

\* app.py:115  vf_factor * layup_factor * manuf_factor (both table factors > 0)
total_factor(vf, lf, mf) ==
    IF vf.k = "fin"
    THEN [k |-> "fin", f |-> FMul(FMul(vf.f, Frac(lf, 100)), Frac(mf, 100))]
    ELSE vf

predict_properties(fiber_type, matrix_type, fiber_vf, layup, manufacturing) ==
    IF ~Hashable(fiber_type) \/ ~Hashable(matrix_type)
       \/ ~Hashable(layup) \/ ~Hashable(manufacturing)
    THEN Raise("TypeError")       \* `in` / .get on an unhashable key
    ELSE
    LET fiber  == resolve_fiber(fiber_type)
        matrix == resolve_matrix(fiber, matrix_type)
        base   == Get(MATERIALS_DB[fiber], matrix, MATERIALS_DB["Carbon"]["Epoxy"])
        total  == total_factor(vf_factor(fiber_vf), layup_factor(layup),
                               manuf_factor(manufacturing))
    IN  Return([tensile_strength_MPa     |-> scaled(base.ts, total),
                tensile_modulus_GPa      |-> scaled(base.tm, total),
                compressive_strength_MPa |-> scaled(base.cs, total),
                flexural_strength_MPa    |-> scaled(base.fs, total),
                flexural_modulus_GPa     |-> scaled(base.fm, total),
                ILSS_MPa                 |-> scaled(base.ilss, total),
                impact_energy_J          |-> scaled(base.ie, total)])

\* predict_properties applied to a record of its five arguments
Apply(a) ==
    predict_properties(a.fiber_type, a.matrix_type, a.fiber_vf, a.layup, a.manufacturing)

Args(ft, mt, vf, ly, mn) ==
    [fiber_type |-> ft, matrix_type |-> mt, fiber_vf |-> vf, layup |-> ly,
     manufacturing |-> mn]

\* Variant: the fiber lookup is MATERIALS_DB.setdefault(fiber_type, {}), which
\* adds an empty sub-table for every unknown fiber name.
MaterialsDbSetdefault(cs) ==
    LET strs == {cs[i].fiber_type.v : i \in {j \in 1..Len(cs) : cs[j].fiber_type.t = "str"}}
    IN  [f \in DOMAIN MATERIALS_DB \cup strs |->
            IF f \in DOMAIN MATERIALS_DB THEN MATERIALS_DB[f] ELSE <<>>]

\* MATERIALS_DB after the predict_properties calls cs: the function only reads
\* the tables (`in`, .get, []) and builds a fresh dict for its result.
MaterialsDbAfter(cs) == MATERIALS_DB

-----------------------------------------------------------------------------
(* The predictor called directly on bounded inputs *)

InitTables ==
    /\ MATERIALS_DB = InitMaterialsDb
    /\ LAYUP_FACTORS = InitLayupFactors
    /\ MANUFACTURING_FACTORS = InitManufacturingFactors
    /\ tie_rule \in {"even", "away", "toward"}

FnFibers   == {JStr(s) : s \in DOMAIN InitMaterialsDb \cup {"Unknown", ""}}
FnMatrices == {JStr(s) : s \in DOMAIN InitMaterialsDb["Carbon"] \cup {"Unknown", ""}}
FnLayups   == {JStr(s) : s \in DOMAIN InitLayupFactors \cup {""}}
FnManufs   == {JStr(s) : s \in DOMAIN InitManufacturingFactors \cup {""}}
FnVfs      == {Fin(n) : n \in {-100, 0, 300, 310, 320, 600, 601, 700, 850}}
                  \cup {NaN, Inf(1)}

InitFn ==
    /\ InitTables
    /\ request = [route |-> "predict_properties"]
    /\ response = [status |-> 0]
    /\ calls = <<>>

\* a first call
Call(a) ==
    /\ calls = <<>>
    /\ calls' = <<a>>
    /\ response' = [status |-> 1, cur |-> Apply(a)]
    /\ MATERIALS_DB' = MaterialsDbAfter(calls')
    /\ UNCHANGED <<LAYUP_FACTORS, MANUFACTURING_FACTORS, tie_rule, request>>

\* a second call with the same categorical arguments and another volume fraction
CallAgain(vf) ==
    /\ Len(calls) = 1
    /\ LET a == [calls[1] EXCEPT !.fiber_vf = vf]
       IN  /\ calls' = Append(calls, a)
           /\ response' = [status |-> 2, prev |-> response.cur, cur |-> Apply(a)]
    /\ MATERIALS_DB' = MaterialsDbAfter(calls')
    /\ UNCHANGED <<LAYUP_FACTORS, MANUFACTURING_FACTORS, tie_rule, request>>

\* the argument records in S while no call has been made, none afterwards
FirstCall(S) == IF calls = <<>> THEN S ELSE {}

\* every categorical combination, one call each
FnArgs ==
    {Args(ft, mt, vf, ly, mn) :
        ft \in FnFibers, mt \in FnMatrices, vf \in FnVfs, ly \in FnLayups,
        mn \in FnManufs}

NextFn == \E a \in FirstCall(FnArgs) : Call(a)

SpecFn == InitFn /\ [][NextFn]_vars

\* pairs of volume fractions over a smaller categorical grid
VfFibers   == {JStr(s) : s \in {"Carbon", "Natural", "Unknown"}}
VfMatrices == {JStr(s) : s \in {"Epoxy", "Polyester"}}
VfLayups   == {JStr(s) : s \in {"UD 0°", "UD 90°", ""}}
VfManufs   == {JStr(s) : s \in {"Autoclave", "Hand_layup", ""}}

VfArgs ==
    {Args(ft, mt, vf, ly, mn) :
        ft \in VfFibers, mt \in VfMatrices, vf \in FnVfs, ly \in VfLayups,
        mn \in VfManufs}

NextVf ==
    \/ \E a \in FirstCall(VfArgs) : Call(a)
    \/ \E vf \in FnVfs : CallAgain(vf)

SpecVf == InitFn /\ [][NextVf]_vars

-----------------------------------------------------------------------------
(* float(x), app.py:203 and app.py:267 *)

\* The characters of the string literals sent as fiber_volume_fraction.
Chars(s) ==
    CASE s = "0.45"  -> <<"0", ".", "4", "5">>
      [] s = "0.3"   -> <<"0", ".", "3">>
      [] s = " 0.7 " -> <<" ", "0", ".", "7", " ">>
      [] s = "0.85"  -> <<"0", ".", "8", "5">>
      [] s = "-0.5"  -> <<"-", "0", ".", "5">>
      [] s = "abc"   -> <<"a", "b", "c">>
      [] s = "0.4.5" -> <<"0", ".", "4", ".", "5">>
      [] s = "nan"   -> <<"n", "a", "n">>
      [] s = "inf"   -> <<"i", "n", "f">>
      [] s = "x"     -> <<"x">>
      [] s = ""      -> <<>>

DigitChars == {"0", "1", "2", "3", "4", "5", "6", "7", "8", "9"}

DigitVal(c) ==
    CASE c = "0" -> 0 [] c = "1" -> 1 [] c = "2" -> 2 [] c = "3" -> 3 [] c = "4" -> 4
      [] c = "5" -> 5 [] c = "6" -> 6 [] c = "7" -> 7 [] c = "8" -> 8 [] c = "9" -> 9

RECURSIVE LStrip(_)
LStrip(cs) == IF cs # <<>> /\ Head(cs) = " " THEN LStrip(Tail(cs)) ELSE cs

RECURSIVE RStrip(_)
RStrip(cs) ==
    IF cs # <<>> /\ cs[Len(cs)] = " " THEN RStrip(SubSeq(cs, 1, Len(cs) - 1)) ELSE cs

RECURSIVE DigitsVal(_)
DigitsVal(cs) ==
    IF cs = <<>> THEN 0
    ELSE 10 * DigitsVal(SubSeq(cs, 1, Len(cs) - 1)) + DigitVal(cs[Len(cs)])

AllDigits(cs) == \A i \in 1..Len(cs) : cs[i] \in DigitChars

\* float(str).  Surrounding blanks are stripped; an optional sign; then nan,
\* inf, or decimal digits with at most one point and at least one digit.
\* Anything else is a ValueError.  Exponents, underscores and more than three
\* fraction digits are outside the strings sent here.
ParseFloat(cs0) ==
    LET cs   == RStrip(LStrip(cs0))
        neg  == cs # <<>> /\ Head(cs) = "-"
        body == IF cs # <<>> /\ Head(cs) \in {"+", "-"} THEN Tail(cs) ELSE cs
        dots == {i \in 1..Len(body) : body[i] = "."}
        dot  == IF dots = {} THEN Len(body) + 1 ELSE CHOOSE i \in dots : TRUE
        ip   == SubSeq(body, 1, dot - 1)
        fp   == SubSeq(body, dot + 1, Len(body))
        pad  == fp \o SubSeq(<<"0", "0", "0">>, 1, 3 - Len(fp))
        mag  == DigitsVal(ip) * 1000 + DigitsVal(pad)
    IN  IF body = <<"n", "a", "n">> THEN Return(NaN)
        ELSE IF body = <<"i", "n", "f">> THEN Return(Inf(IF neg THEN -1 ELSE 1))
        ELSE IF /\ Cardinality(dots) <= 1
                /\ AllDigits(ip) /\ AllDigits(fp)
                /\ Len(ip) + Len(fp) >= 1
                /\ Len(fp) <= 3
        THEN Return(Fin(IF neg THEN -mag ELSE mag))
        ELSE Raise("ValueError")

\* float(x) for a decoded JSON value x
to_float(j) ==
    CASE j.t = "num"  -> Return(Fin(j.v))
      [] j.t = "bool" -> Return(Fin(IF j.v THEN 1000 ELSE 0))
      [] j.t = "str"  -> ParseFloat(Chars(j.v))
      [] OTHER        -> Raise("TypeError")     \* None, list, dict

-----------------------------------------------------------------------------
(* predict, app.py:194-246 *)

VF_MIN == 300          \* app.py:208
VF_MAX == 700          \* app.py:208
DEFAULT_VF == 600      \* app.py:203, app.py:267
PORT == 8080           \* app.py:17 (the default when $PORT is unset)

UNITS == [strength |-> "MPa", modulus |-> "GPa", ILSS |-> "MPa", impact_energy |-> "J"]

\* Variant: the bounds are excluded.
InRangeExclusive(fiber_vf) ==
    /\ fiber_vf.k = "fin"
    /\ VF_MIN < fiber_vf.n
    /\ fiber_vf.n < VF_MAX

\* 0.3 <= fiber_vf <= 0.7; every comparison with nan is False
InRange(fiber_vf) ==
    /\ fiber_vf.k = "fin"
    /\ VF_MIN <= fiber_vf.n
    /\ fiber_vf.n <= VF_MAX

ServerError ==
    [status |-> 500, body |-> [success |-> FALSE, error |-> "Internal server error"]]

\* The handler's reply and the predict_properties calls it made.
predict(data) ==
    IF data.t # "obj"
    THEN [response |-> ServerError, calls |-> <<>>]     \* data.get: AttributeError
    ELSE
    LET fiber_type    == Get(data.v, "fiber_type", JStr("Carbon"))
        matrix_type   == Get(data.v, "matrix_type", JStr("Epoxy"))
        conv          == to_float(Get(data.v, "fiber_volume_fraction", JNum(DEFAULT_VF)))
        layup         == Get(data.v, "layup", JStr("UD 0°"))
        manufacturing == Get(data.v, "manufacturing", JStr("Autoclave"))
    IN  IF Raised(conv)
        THEN IF conv.raised = "ValueError"
             THEN [response |->
                      [status |-> 400,
                       body |-> [success |-> FALSE,
                                 error |-> "Invalid input: could not convert string to float"]],
                   calls |-> <<>>]
             ELSE [response |-> ServerError, calls |-> <<>>]
        ELSE
        LET fiber_vf == conv.value
            a == Args(fiber_type, matrix_type, fiber_vf, layup, manufacturing)
            predictions == Apply(a)
        IN  IF ~InRange(fiber_vf)
            THEN [response |->
                     [status |-> 400,
                      body |-> [success |-> FALSE,
                                error |-> "Fiber volume fraction must be between 0.3 and 0.7"]],
                  calls |-> <<>>]
            ELSE IF Raised(predictions)
            THEN [response |-> ServerError, calls |-> <<a>>]
            ELSE [response |->
                     [status |-> 200,
                      body |-> [success |-> TRUE,
                                method |-> "empirical_formulas",
                                input |-> [fiber_type |-> fiber_type,
                                           matrix_type |-> matrix_type,
                                           fiber_volume_fraction |-> fiber_vf,
                                           layup |-> layup,
                                           manufacturing |-> manufacturing],
                                predictions |-> predictions.value,
                                units |-> UNITS]],
                  calls |-> <<a>>]

-----------------------------------------------------------------------------
(* predict_batch, app.py:249-298 *)

\* bool(x) is False: None, 0, False, and empty str, list, dict
Falsy(j) ==
    CASE j.t = "null" -> TRUE
      [] j.t = "num"  -> j.v = 0
      [] j.t = "bool" -> ~j.v
      [] j.t = "str"  -> j.v = ""
      [] j.t = "list" -> j.v = <<>>
      [] j.t = "obj"  -> DOMAIN j.v = {}

\* enumerate(samples): a list yields its items, a str its characters; a
\* number is not iterable.  (A dict would yield its keys; none is sent as
\* `samples` here.)
Iterable(j) == j.t \in {"list", "str"}

Items(j) ==
    IF j.t = "list" THEN j.v
    ELSE [i \in 1..Len(Chars(j.v)) |-> JStr(Chars(j.v)[i])]

\* One pass of the loop body at app.py:264-285 for (idx, sample):
\* the entry appended to results and the predict_properties call made, if any.
batch_item(idx, sample) ==
    IF sample.t # "obj"
    THEN [result |-> [index |-> idx, input |-> sample, success |-> FALSE,
                      error |-> "AttributeError"],
          calls |-> <<>>]
    ELSE
    LET fiber_type    == Get(sample.v, "fiber_type", JStr("Carbon"))
        matrix_type   == Get(sample.v, "matrix_type", JStr("Epoxy"))
        conv          == to_float(Get(sample.v, "fiber_volume_fraction", JNum(DEFAULT_VF)))
        layup         == Get(sample.v, "layup", JStr("UD 0°"))
        manufacturing == Get(sample.v, "manufacturing", JStr("Autoclave"))
    IN  IF Raised(conv)
        THEN [result |-> [index |-> idx, input |-> sample, success |-> FALSE,
                          error |-> conv.raised],
              calls |-> <<>>]
        ELSE
        LET a == Args(fiber_type, matrix_type, conv.value, layup, manufacturing)
            predictions == Apply(a)
        IN  IF Raised(predictions)
            THEN [result |-> [index |-> idx, input |-> sample, success |-> FALSE,
                              error |-> predictions.raised],
                  calls |-> <<a>>]
            ELSE [result |-> [index |-> idx, input |-> sample,
                              predictions |-> predictions.value, success |-> TRUE],
                  calls |-> <<a>>]

\* Variant: the loop ends at the first item that fails.
RECURSIVE batch_loop_break(_, _, _)
batch_loop_break(items, i, acc) ==
    IF i > Len(items) THEN acc
    ELSE LET step == batch_item(i - 1, items[i])
             next == [results |-> Append(acc.results, step.result),
                      calls   |-> acc.calls \o step.calls]
         IN  IF ~step.result.success THEN next
             ELSE batch_loop_break(items, i + 1, next)

\* The for loop at app.py:263: items from position i on, appended to acc.
RECURSIVE batch_loop(_, _, _)
batch_loop(items, i, acc) ==
    IF i > Len(items) THEN acc
    ELSE LET step == batch_item(i - 1, items[i])
         IN  batch_loop(items, i + 1,
                        [results |-> Append(acc.results, step.result),
                         calls   |-> acc.calls \o step.calls])

predict_batch(data) ==
    IF data.t # "obj"
    THEN [response |-> [status |-> 500,
                        body |-> [success |-> FALSE, error |-> "AttributeError"]],
          calls |-> <<>>]
    ELSE
    LET samples == Get(data.v, "samples", JList(<<>>))
    IN  IF Falsy(samples)
        THEN [response |-> [status |-> 400,
                            body |-> [success |-> FALSE, error |-> "No samples provided"]],
              calls |-> <<>>]
        ELSE IF ~Iterable(samples)
        THEN [response |-> [status |-> 500,
                            body |-> [success |-> FALSE, error |-> "TypeError"]],
              calls |-> <<>>]
        ELSE
        LET done == batch_loop(Items(samples), 1, [results |-> <<>>, calls |-> <<>>])
        IN  [response |-> [status |-> 200,
                           body |-> [success |-> TRUE,
                                     method |-> "empirical_formulas",
                                     count |-> Len(done.results),
                                     results |-> done.results]],
             calls |-> done.calls]

-----------------------------------------------------------------------------
(* The read-only handlers, app.py:129-191 and app.py:301-340 *)

home(found) ==
    IF found
    THEN [status |-> 200, body |-> [file |-> "static/index.html"]]
    ELSE [status |-> 200,
          body |-> [status |-> "online", message |-> "Composite Materials API",
                    api_docs |-> "/api", error |-> "Web interface not found"]]

\* datetime.now() is left out of the body
health ==
    [status |-> 200,
     body |-> [status |-> "healthy", version |-> "2.0",
               method |-> "empirical_formulas",
               materials_count |-> Cardinality(DOMAIN MATERIALS_DB),
               port |-> PORT]]

api_info ==
    [status |-> 200,
     body |-> [name |-> "Composite Materials Property Prediction API",
               version |-> "2.0", status |-> "active",
               dataset |-> [fiber_types |-> 5, matrix_types |-> 5,
                            total_combinations |-> 25, layup_configs |-> 7,
                            manufacturing_processes |-> 7]]]

get_materials ==
    [status |-> 200,
     body |-> [success |-> TRUE, database |-> MATERIALS_DB,
               note |-> "Base values at fiber volume fraction = 0.6"]]

\* list(d.keys()) is given as the set of keys
get_options ==
    [status |-> 200,
     body |-> [success |-> TRUE,
               options |-> [fiber_types |-> DOMAIN MATERIALS_DB,
                            matrix_types |-> {"Epoxy", "Polyester", "Vinyl_ester",
                                              "PEEK", "PA6"},
                            layups |-> DOMAIN LAYUP_FACTORS,
                            manufacturing |-> DOMAIN MANUFACTURING_FACTORS,
                            fiber_volume_fraction |->
                                [min |-> VF_MIN, max |-> VF_MAX,
                                 recommended |-> DEFAULT_VF]],
               factors |-> [layup |-> LAYUP_FACTORS,
                            manufacturing |-> MANUFACTURING_FACTORS]]]

-----------------------------------------------------------------------------
(* Requests *)

MaxBatch == 2      \* longest `samples` list sent

Absent == [t |-> "absent"]

Keys == {"fiber_type", "matrix_type", "fiber_volume_fraction", "layup", "manufacturing"}

\* the JSON object holding the fields that are present
MkObj(ft, mt, vf, ly, mn) ==
    LET all == [fiber_type |-> ft, matrix_type |-> mt, fiber_volume_fraction |-> vf,
                layup |-> ly, manufacturing |-> mn]
    IN  JObj([key \in {x \in Keys : all[x] # Absent} |-> all[key]])

VfValues ==
    {Absent, JNum(250), JNum(300), JNum(450), JNum(700), JNum(850), JNum(0),
     JStr("0.45"), JStr(" 0.7 "), JStr("0.85"), JStr("-0.5"), JStr("abc"),
     JStr("0.4.5"), JStr(""), JStr("nan"), JStr("inf"),
     JNull, JList(<<>>), JObj(<<>>), JBool(TRUE)}

PredictBodies ==
    {JNull, JList(<<>>)} \cup
    {MkObj(ft, mt, vf, ly, mn) :
        ft \in {Absent, JStr("Glass"), JStr("Unknown"), JNull, JList(<<>>)},
        mt \in {Absent, JStr("PEEK")},
        vf \in VfValues,
        ly \in {Absent, JStr("Woven"), JList(<<>>)},
        mn \in {Absent, JStr("RTM")}}

BatchSamples ==
    {JNull, JStr("x")} \cup
    {MkObj(ft, Absent, vf, Absent, mn) :
        ft \in {Absent, JStr("Glass"), JList(<<>>)},
        vf \in {Absent, JNum(450), JNum(850), JStr("0.45"), JStr("abc"), JNull},
        mn \in {Absent, JStr("RTM")}}

BatchBodies ==
    {JNull, JObj(<<>>)} \cup
    {JObj([samples |-> x]) : x \in {JNull, JNum(3), JStr("x"), JStr("")}} \cup
    {JObj([samples |-> JList(xs)]) :
        xs \in UNION {[1..n -> BatchSamples] : n \in 0..MaxBatch}}

-----------------------------------------------------------------------------
(* The server *)

Idle == [route |-> "idle"]
NoResponse == [status |-> 0]

Init ==
    /\ InitTables
    /\ request = Idle
    /\ response = NoResponse
    /\ calls = <<>>

\* the bodies in S while the server waits for a request, none while it answers one
Arriving(S) == IF request = Idle THEN S ELSE {}

Answer(req, out) ==
    /\ request = Idle
    /\ request' = req
    /\ response' = out.response
    /\ calls' = out.calls
    /\ MATERIALS_DB' = MaterialsDbAfter(calls')
    /\ UNCHANGED <<LAYUP_FACTORS, MANUFACTURING_FACTORS, tie_rule>>

Predict(data) ==
    Answer([route |-> "/api/predict", data |-> data], predict(data))

PredictBatch(data) ==
    Answer([route |-> "/api/predict/batch", data |-> data], predict_batch(data))

Home(found) ==
    Answer([route |-> "/"], [response |-> home(found), calls |-> <<>>])

Health ==
    Answer([route |-> "/health"], [response |-> health, calls |-> <<>>])

ApiInfo ==
    Answer([route |-> "/api"], [response |-> api_info, calls |-> <<>>])

GetMaterials ==
    Answer([route |-> "/api/materials"], [response |-> get_materials, calls |-> <<>>])

GetOptions ==
    Answer([route |-> "/api/options"], [response |-> get_options, calls |-> <<>>])

\* the reply is sent and the server waits for the next request
Respond ==
    /\ request # Idle
    /\ request' = Idle
    /\ response' = NoResponse
    /\ calls' = <<>>
    /\ UNCHANGED <<MATERIALS_DB, LAYUP_FACTORS, MANUFACTURING_FACTORS, tie_rule>>

Next ==
    \/ \E data \in Arriving(PredictBodies) : Predict(data)
    \/ \E data \in Arriving(BatchBodies) : PredictBatch(data)
    \/ \E found \in BOOLEAN : Home(found)
    \/ Health
    \/ ApiInfo
    \/ GetMaterials
    \/ GetOptions
    \/ Respond

Spec == Init /\ [][Next]_vars

-----------------------------------------------------------------------------
(* Properties of the request handlers, checked under Spec *)

RangeMessage == "Fiber volume fraction must be between 0.3 and 0.7"

IsPredict == request.route = "/api/predict" /\ request.data.t = "obj"

\* the conversion of the request's fiber_volume_fraction (0.6 when absent)
SentVf(o) == to_float(Get(o, "fiber_volume_fraction", JNum(600)))

\* a float inside the closed interval [0.3, 0.7]
Within(x) == x.k = "fin" /\ x.n >= 300 /\ x.n <= 700

RangeRejected == response.status = 400 /\ response.body.error = RangeMessage

\* C1: at POST /api/predict, a request whose fiber_volume_fraction converts to
\* a number outside [0.3, 0.7] is answered 400 with success = false and the
\* range message, and predict_properties is not called; a value inside
\* [0.3, 0.7], bounds included, is not rejected by the range check.
C1_RangeValidation ==
    IsPredict =>
        LET conv == SentVf(request.data.v)
        IN  ~Raised(conv) =>
                IF Within(conv.value)
                THEN ~RangeRejected
                ELSE /\ RangeRejected
                     /\ response.body.success = FALSE
                     /\ calls = <<>>

\* a request carrying the string "0.85" was rejected before any call
C1_Witness ==
    /\ IsPredict
    /\ "fiber_volume_fraction" \in DOMAIN request.data.v
    /\ request.data.v.fiber_volume_fraction = JStr("0.85")
    /\ RangeRejected
    /\ calls = <<>>

\* C2: whatever the entry point, predict_properties is never called with a
\* fiber volume fraction below 0.3 or above 0.7.
C2_PredictorNeverOutOfRange ==
    \A i \in 1..Len(calls) :
        LET v == calls[i].fiber_vf
        IN  /\ ~(v.k = "fin" /\ (v.n < 300 \/ v.n > 700))
            /\ v.k # "inf"

IsListBatch ==
    /\ request.route = "/api/predict/batch"
    /\ request.data.t = "obj"
    /\ "samples" \in DOMAIN request.data.v
    /\ request.data.v.samples.t = "list"
    /\ request.data.v.samples.v # <<>>

\* C3: a non-empty batch of n samples gets exactly n results; result i carries
\* index i and echoes sample i; each result is {index, input, predictions,
\* success: true} or {index, input, success: false, error}; and each result is
\* what the same sample gets in a batch of its own (apart from the index).
C3_BatchIsolation ==
    IsListBatch =>
        LET xs == request.data.v.samples.v
            rs == response.body.results
        IN  /\ response.status = 200
            /\ response.body.count = Len(xs)
            /\ Len(rs) = Len(xs)
            /\ \A i \in 1..Len(xs) :
                /\ rs[i].index = i - 1
                /\ rs[i].input = xs[i]
                /\ \/ /\ DOMAIN rs[i] = {"index", "input", "predictions", "success"}
                      /\ rs[i].success = TRUE
                   \/ /\ DOMAIN rs[i] = {"index", "input", "success", "error"}
                      /\ rs[i].success = FALSE
                /\ LET alone == predict_batch(JObj([samples |-> JList(<<xs[i]>>)]))
                   IN  rs[i] = [alone.response.body.results[1] EXCEPT !.index = i - 1]

\* a batch whose first item fails and whose second succeeds
C3_Witness ==
    /\ IsListBatch
    /\ Len(response.body.results) = 2
    /\ response.body.results[1].success = FALSE
    /\ response.body.results[2].success = TRUE

\* the categorical fields of a sample are strings or absent
PlainCategoricals(o) ==
    \A key \in {"fiber_type", "matrix_type", "layup", "manufacturing"} :
        key \in DOMAIN o => o[key].t = "str"

\* C4: a batch item with a numeric fiber_volume_fraction has success = true and
\* the predictions of a single POST /api/predict with the same fields; an item
\* with a non-numeric fiber_volume_fraction has success = false.
C4_BatchMatchesSingle ==
    IsListBatch =>
        LET xs == request.data.v.samples.v
            rs == response.body.results
        IN  \A i \in 1..Len(xs) :
                (xs[i].t = "obj" /\ PlainCategoricals(xs[i].v)) =>
                    LET single == predict(xs[i]).response
                    IN  IF Raised(SentVf(xs[i].v))
                        THEN rs[i].success = FALSE
                        ELSE /\ rs[i].success = TRUE
                             /\ single.status = 200
                             /\ rs[i].predictions = single.body.predictions

\* C5: at POST /api/predict a fiber_volume_fraction that does not convert to a
\* number (a non-numeric string, null, a list, an object) is answered 400, and
\* predict_properties is not called.
C5_MalformedIsClientError ==
    IsPredict =>
        (Raised(SentVf(request.data.v)) => response.status = 400 /\ calls = <<>>)

FiveMatrices == {"Epoxy", "Polyester", "Vinyl_ester", "PEEK", "PA6"}

\* C10: in every state the three tables equal their initial values: the
\* catalog is the dense grid of 5 fibers x 5 matrices with seven positive
\* fields per record, and each factor table has 7 entries in (0, 1].
C10_TablesConstant ==
    /\ MATERIALS_DB = InitMaterialsDb
    /\ LAYUP_FACTORS = InitLayupFactors
    /\ MANUFACTURING_FACTORS = InitManufacturingFactors
    /\ Cardinality(DOMAIN MATERIALS_DB) = 5
    /\ \A f \in DOMAIN MATERIALS_DB :
        /\ DOMAIN MATERIALS_DB[f] = FiveMatrices
        /\ \A m \in FiveMatrices :
            /\ DOMAIN MATERIALS_DB[f][m] = BaseKeys
            /\ \A key \in BaseKeys : MATERIALS_DB[f][m][key] > 0
    /\ Cardinality(DOMAIN LAYUP_FACTORS) = 7
    /\ \A x \in DOMAIN LAYUP_FACTORS : LAYUP_FACTORS[x] > 0 /\ LAYUP_FACTORS[x] <= 100
    /\ Cardinality(DOMAIN MANUFACTURING_FACTORS) = 7
    /\ \A x \in DOMAIN MANUFACTURING_FACTORS :
        MANUFACTURING_FACTORS[x] > 0 /\ MANUFACTURING_FACTORS[x] <= 100

\* a batch with a failing item has called the predictor for another item, and
\* the catalog is as it was
C10_Witness ==
    /\ IsListBatch
    /\ calls # <<>>
    /\ \E i \in 1..Len(response.body.results) : ~response.body.results[i].success
    /\ MATERIALS_DB = InitMaterialsDb

-----------------------------------------------------------------------------
(* Properties of predict_properties, checked under SpecFn and SpecVf *)

OutKeys ==
    {"tensile_strength_MPa", "tensile_modulus_GPa", "compressive_strength_MPa",
     "flexural_strength_MPa", "flexural_modulus_GPa", "ILSS_MPa", "impact_energy_J"}

\* the table field each output field is computed from
BaseKeyOf ==
    [tensile_strength_MPa |-> "ts", tensile_modulus_GPa |-> "tm",
     compressive_strength_MPa |-> "cs", flexural_strength_MPa |-> "fs",
     flexural_modulus_GPa |-> "fm", ILSS_MPa |-> "ilss", impact_energy_J |-> "ie"]

Called == response.status = 1

AtReference(a) ==
    /\ a.fiber_vf = Fin(600)
    /\ a.layup = JStr("UD 0°")
    /\ a.manufacturing = JStr("Autoclave")

\* the fiber and matrix the claim resolves the arguments to
ClaimedFiber(a) ==
    IF a.fiber_type.v \in DOMAIN MATERIALS_DB THEN a.fiber_type.v ELSE "Carbon"

ClaimedMatrix(a) ==
    IF a.matrix_type.v \in DOMAIN MATERIALS_DB[ClaimedFiber(a)]
    THEN a.matrix_type.v ELSE "Epoxy"

\* every output field is the finite table value of record b, unscaled
EqualsRecord(out, b) == \A key \in OutKeys : out[key] = Fin(b[BaseKeyOf[key]])

\* C6: a fiber_type that is no catalog key gives the result of "Carbon" with
\* the other arguments unchanged, and the record used is
\* Catalog[rf][rm], rf the fiber if it is a key else "Carbon", rm the matrix if
\* it is a key of Catalog[rf] else "Epoxy".
C6_Fallback ==
    Called =>
        LET a  == calls[1]
            rf == ClaimedFiber(a)
            rm == ClaimedMatrix(a)
        IN  /\ a.fiber_type.v \notin DOMAIN MATERIALS_DB =>
                   response.cur = Apply([a EXCEPT !.fiber_type = JStr("Carbon")])
            /\ response.cur = Apply([a EXCEPT !.fiber_type = JStr(rf),
                                              !.matrix_type = JStr(rm)])
            /\ AtReference(a) => EqualsRecord(response.cur.value, MATERIALS_DB[rf][rm])

\* "Unknown" with "PEEK" at the reference point gave the Carbon/PEEK record
C6_Witness ==
    /\ Called
    /\ calls[1].fiber_type = JStr("Unknown")
    /\ calls[1].matrix_type = JStr("PEEK")
    /\ AtReference(calls[1])
    /\ response.cur.value.tensile_strength_MPa = Fin(18000)

\* C7: for every (fiber, matrix) pair of the catalog, the call at Vf = 0.6,
\* "UD 0°", "Autoclave" returns that pair's record unscaled; Carbon/Epoxy gives
\* 1500.0, 130.0, 1200.0, 1400.0, 125.0, 75.0, 18.0.
C7_ReferencePoint ==
    (/\ Called
     /\ AtReference(calls[1])
     /\ calls[1].fiber_type.v \in DOMAIN InitMaterialsDb
     /\ calls[1].matrix_type.v \in FiveMatrices) =>
        LET a == calls[1]
            out == response.cur.value
        IN  /\ EqualsRecord(out, InitMaterialsDb[a.fiber_type.v][a.matrix_type.v])
            /\ (a.fiber_type.v = "Carbon" /\ a.matrix_type.v = "Epoxy") =>
                   out = [tensile_strength_MPa     |-> Fin(15000),
                          tensile_modulus_GPa      |-> Fin(1300),
                          compressive_strength_MPa |-> Fin(12000),
                          flexural_strength_MPa    |-> Fin(14000),
                          flexural_modulus_GPa     |-> Fin(1250),
                          ILSS_MPa                 |-> Fin(750),
                          impact_energy_J          |-> Fin(180)]

\* the Carbon/Epoxy reference call has returned
C7_Witness ==
    /\ Called
    /\ AtReference(calls[1])
    /\ calls[1].fiber_type = JStr("Carbon")
    /\ calls[1].matrix_type = JStr("Epoxy")
    /\ response.cur.value.impact_energy_J = Fin(180)

\* x < y for floats (every comparison with nan is False)
Lt(x, y) ==
    \/ x.k = "fin" /\ y.k = "fin" /\ x.n < y.n
    \/ x.k = "fin" /\ y.k = "inf" /\ y.n = 1
    \/ x.k = "inf" /\ x.n = -1 /\ y.k = "fin"

Le(x, y) == Lt(x, y) \/ (x.k # "nan" /\ x = y)

CalledTwiceRising ==
    /\ response.status = 2
    /\ Lt(calls[1].fiber_vf, calls[2].fiber_vf)

\* C8 as stated: with the categorical arguments fixed and v1 < v2, every one of
\* the seven rounded output fields at v2 is strictly greater than at v1.
C8_StrictlyMonotone ==
    CalledTwiceRising =>
        \A key \in OutKeys : Lt(response.prev.value[key], response.cur.value[key])

\* C8 as amended: with the categorical arguments fixed and v1 < v2, none of the
\* seven rounded output fields at v2 is smaller than at v1.
C8_Monotone ==
    CalledTwiceRising =>
        \A key \in OutKeys : Le(response.prev.value[key], response.cur.value[key])

\* Natural/Polyester, "UD 90°", "Hand_layup": 0.31 and 0.32 both give a tensile
\* modulus of 0.4 (exactly 0.351 and 0.363 before rounding)
C8_Witness ==
    /\ CalledTwiceRising
    /\ calls[1] = Args(JStr("Natural"), JStr("Polyester"), Fin(310), JStr("UD 90°"),
                       JStr("Hand_layup"))
    /\ calls[2].fiber_vf = Fin(320)
    /\ response.prev.value.tensile_modulus_GPa = Fin(4)
    /\ response.cur.value.tensile_modulus_GPa = Fin(4)

\* C9: for all strings (empty and unrecognised included) and any numeric Vf,
\* predict_properties raises nothing and returns exactly the seven fields,
\* each round(base.field * (Vf / 0.6) * L * M, 1), L the layup's factor or 0.85
\* when it is no key, M the process factor or 0.95 when it is no key.
C9_TotalOverCategoricals ==
    Called =>
        LET a == calls[1]
            b == MATERIALS_DB[ClaimedFiber(a)][ClaimedMatrix(a)]
            L == IF a.layup.v \in DOMAIN LAYUP_FACTORS
                 THEN LAYUP_FACTORS[a.layup.v] ELSE 85
            M == IF a.manufacturing.v \in DOMAIN MANUFACTURING_FACTORS
                 THEN MANUFACTURING_FACTORS[a.manufacturing.v] ELSE 95
            want(x) == round1(FMul(FMul(FMul(Frac(x, 1), Frac(a.fiber_vf.n, 600)),
                                        Frac(L, 100)), Frac(M, 100)))
        IN  /\ ~Raised(response.cur)
            /\ DOMAIN response.cur.value = OutKeys
            /\ \A key \in OutKeys :
                response.cur.value[key] =
                    IF a.fiber_vf.k = "fin" THEN Fin(want(b[BaseKeyOf[key]]))
                    ELSE a.fiber_vf

\* four empty strings at Vf = 0.3: Carbon/Epoxy scaled by 0.5 * 0.85 * 0.95
C9_Witness ==
    /\ Called
    /\ calls[1] = Args(JStr(""), JStr(""), Fin(300), JStr(""), JStr(""))
    /\ response.cur.value.tensile_strength_MPa = Fin(6056)

====
